---- MODULE Spec2Model ----
(***************************************************************************)
(* Model of BIST50_Volatility_Analysis.py: the four functions get_data,    *)
(* calculate_volatility, plot_volatility, plot_correlation and the         *)
(* __main__ block that runs them in sequence.                              *)
(*                                                                         *)
(* Numbers.  A table cell is NaN or a number.  Prices are drawn from       *)
(* PriceValues; np.log is a fixed-point natural logarithm in units of      *)
(* 1/100 (LnCenti), so a log return is an integer number of centi-units.   *)
(* Standard deviations are integer square roots in the same unit, and a    *)
(* correlation is a fixed-point number in units of 1/1000.                 *)
(*                                                                         *)
(* Tables.  A table (pandas DataFrame) is a function from its column       *)
(* names to sequences of cells of one common length; row t of the code     *)
(* (0-based) is index t+1 of the sequence.                                 *)
(***************************************************************************)
EXTENDS Integers, Sequences, FiniteSets, TLC

VARIABLES
    invocation,   \* "__main__": run as a script; "import": imported, nothing
                  \* else happens; "call": a caller runs the functions itself
    tickers,      \* argument of get_data
    window,       \* argument of calculate_volatility
    pc,           \* the stage about to run, or "done" / "aborted" / "idle"
    prices,       \* result of get_data
    volatility,   \* first result of calculate_volatility
    returns,      \* second result of calculate_volatility
    correlation,  \* result of plot_correlation
    charts,       \* figures shown so far: chart name -> the table drawn
    trace,        \* the stages started so far, in order
    network_calls,\* number of yf.download calls issued
    failed        \* the stage that raised, or "none"

vars == <<invocation, tickers, window, pc, prices, volatility, returns,
          correlation, charts, trace, network_calls, failed>>

---------------------------------------------------------------------------
(* Configuration, lines 13-16 *)

TICKERS == {"THYAO.IS", "GARAN.IS", "TUPRS.IS"}

WINDOW_SIZE == 21

(* Bounds of the model *)

\* a table of the data source has at most MaxCells cells (rows * columns)
MaxCells == 8

\* and at most MaxRows rows
MaxRows == 4

\* a caller passes windows -1 .. MaxWindow, or WINDOW_SIZE
MaxWindow == 3

\* number of trading days of the constant-price tables
ScenarioDays == 30

PriceValues == {100, 110}

Windows == ((-1) .. MaxWindow) \cup {WINDOW_SIZE}

---------------------------------------------------------------------------
(* Cells and arithmetic *)

NaN == [nan |-> TRUE, v |-> 0]

Num(x) == [nan |-> FALSE, v |-> x]

Cells == {NaN} \cup {Num(p) : p \in PriceValues}

\* round(100 * ln p)
LnCenti(p) == CASE p = 100 -> 461
                [] p = 110 -> 470

\* round(100 * sqrt(252))
SQRT_252 == 1587

Max(a, b) == IF a >= b THEN a ELSE b

Min(a, b) == IF a <= b THEN a ELSE b

RECURSIVE ISqrtBetween(_, _, _)
ISqrtBetween(n, lo, hi) ==
    IF lo >= hi THEN lo
    ELSE LET mid == (lo + hi + 1) \div 2
         IN  IF mid * mid <= n THEN ISqrtBetween(n, mid, hi)
                               ELSE ISqrtBetween(n, lo, mid - 1)

\* floor of the square root of n >= 0
ISqrt(n) == ISqrtBetween(n, 0, Min(n, 46340))

RECURSIVE SumOver(_, _)
SumOver(f, S) ==
    IF S = {} THEN 0
    ELSE LET k == CHOOSE x \in S : TRUE
         IN  f[k] + SumOver(f, S \ {k})

\* number of rows of a table
Rows(tbl) ==
    IF DOMAIN tbl = {} THEN 0
    ELSE Len(tbl[CHOOSE s \in DOMAIN tbl : TRUE])

---------------------------------------------------------------------------
(* calculate_volatility, lines 26-34 *)

\* data.shift(-1): every row takes the value of the row after it
ShiftForward(col) ==
    [t \in 1 .. Len(col) |-> IF t = Len(col) THEN NaN ELSE col[t + 1]]

\* data.shift(1): every row takes the value of the row before it
Shift1(col) ==
    [t \in 1 .. Len(col) |-> IF t = 1 THEN NaN ELSE col[t - 1]]

\* np.log(a / b) of two cells; a missing operand gives a missing result
LogRatio(a, b) ==
    IF a.nan \/ b.nan THEN NaN ELSE Num(LnCenti(a.v) - LnCenti(b.v))

\* the last price seen at or before row t, as data.ffill() would give
RECURSIVE LastSeen(_, _)
LastSeen(col, t) ==
    IF t = 0 THEN NaN
    ELSE IF ~col[t].nan THEN col[t] ELSE LastSeen(col, t - 1)

\* np.log(data.ffill() / data.ffill().shift(1))
LogReturnsFfill(data) ==
    [s \in DOMAIN data |->
        LET filled == [t \in 1 .. Len(data[s]) |-> LastSeen(data[s], t)]
        IN  [t \in 1 .. Len(data[s]) |-> LogRatio(filled[t], Shift1(filled)[t])]]

\* line 31: log_returns = np.log(data / data.shift(1))
LogReturns(data) ==
    [s \in DOMAIN data |->
        [t \in 1 .. Len(data[s]) |-> LogRatio(data[s][t], Shift1(data[s])[t])]]

\* rolling(window, min_periods=1)
MinPeriodsOne(w) == 1

\* rolling(window): min_periods defaults to the window length
MinPeriods(w) == w

\* the rows of a trailing window one row too short
WindowRowsShort(t, w) == {k \in 1 .. t : k > t - (w - 1)}

\* the rows of the trailing window of length w that ends at row t
WindowRows(t, w) == {k \in 1 .. t : k > t - w}

\* sample standard deviation (ddof = 1) of the defined values of the window
\* ending at row t; missing when fewer than min_periods values are defined
\* or when there are not more values than ddof
RollingStdAt(col, w, t) ==
    LET obs  == {k \in WindowRows(t, w) : ~col[k].nan}
        nobs == Cardinality(obs)
        x    == [k \in obs |-> col[k].v]
        xx   == [k \in obs |-> col[k].v * col[k].v]
        sx   == SumOver(x, obs)
        ssqdm == Max(0, nobs * SumOver(xx, obs) - sx * sx)
    IN  IF nobs >= MinPeriods(w) /\ nobs > 1
        THEN Num(ISqrt(ssqdm \div (nobs * (nobs - 1))))
        ELSE NaN

\* a cell times np.sqrt(252)
Annualize(c) ==
    IF c.nan THEN NaN ELSE Num((c.v * SQRT_252) \div 100)

\* line 33: log_returns.rolling(window=window).std() * np.sqrt(252)
RollingVol(log_returns, w) ==
    [s \in DOMAIN log_returns |->
        [t \in 1 .. Len(log_returns[s]) |->
            Annualize(RollingStdAt(log_returns[s], w, t))]]

\* calculate_volatility(data, window): rolling() raises ValueError for a
\* negative window; otherwise the pair (rolling_vol, log_returns)
calculate_volatility(data, w) ==
    IF w < 0
    THEN [raised |-> TRUE, rolling_vol |-> <<>>, log_returns |-> <<>>]
    ELSE [raised |-> FALSE,
          rolling_vol |-> RollingVol(LogReturns(data), w),
          log_returns |-> LogReturns(data)]

---------------------------------------------------------------------------
(* plot_correlation, lines 49-58 *)

\* the divisor of a correlation taken from the first series alone
CorrDivisorOneSided(dx, dy) == dx

\* sqrt(ssqdm_x * ssqdm_y)
CorrDivisor(dx, dy) == ISqrt(dx * dy)

\* Pearson correlation of two columns over the rows where both are defined,
\* in units of 1/1000; missing when no such row or when a variance is zero
PearsonCorr(a, b) ==
    LET obs  == {k \in 1 .. Len(a) : ~a[k].nan /\ ~b[k].nan}
        nobs == Cardinality(obs)
        x    == [k \in obs |-> a[k].v]
        y    == [k \in obs |-> b[k].v]
        xy   == [k \in obs |-> a[k].v * b[k].v]
        xx   == [k \in obs |-> a[k].v * a[k].v]
        yy   == [k \in obs |-> b[k].v * b[k].v]
        sx   == SumOver(x, obs)
        sy   == SumOver(y, obs)
        cov  == nobs * SumOver(xy, obs) - sx * sy
        dx   == nobs * SumOver(xx, obs) - sx * sx
        dy   == nobs * SumOver(yy, obs) - sy * sy
        div  == CorrDivisor(dx, dy)
    IN  IF nobs < 1 \/ div = 0 THEN NaN
        ELSE IF cov >= 0 THEN Num((cov * 1000) \div div)
                         ELSE Num(0 - (((0 - cov) * 1000) \div div))

\* line 54: corr_matrix = returns.corr()
Corr(rets) ==
    [a \in DOMAIN rets |-> [b \in DOMAIN rets |-> PearsonCorr(rets[a], rets[b])]]

---------------------------------------------------------------------------
(* The data source behind yf.download, line 23 *)

\* the price tables with the requested columns: any history of at most
\* MaxRows rows and MaxCells cells, gaps and all-missing columns (unknown
\* tickers) included, zero rows (an empty range) included
SmallTables(T) ==
    UNION {[T -> [1 .. n -> Cells]] :
              n \in 0 .. Min(MaxRows, MaxCells \div Cardinality(T))}

\* ScenarioDays trading days in which every ticker keeps one price
ConstantTables(T) ==
    {[s \in T |-> [t \in 1 .. ScenarioDays |-> Num(f[s])]] : f \in [T -> PriceValues]}

Tables(T) ==
    IF T = {} THEN {<<>>} ELSE SmallTables(T) \cup ConstantTables(T)

\* what yf.download(tickers, start, end)['Close'] can do: raise, or hand
\* back one of the tables
DataSource(T) ==
    {[raised |-> TRUE, table |-> <<>>]}
        \cup {[raised |-> FALSE, table |-> x] : x \in Tables(T)}

---------------------------------------------------------------------------
(* The __main__ block, lines 62-78 *)

StageOrder ==
    <<"get_data", "calculate_volatility", "plot_volatility",
      "plot_correlation", "summary">>

\* the correlation heatmap drawn before the volatility chart
NextStageSwapped(stage) ==
    CASE stage = "get_data"             -> "calculate_volatility"
      [] stage = "calculate_volatility" -> "plot_correlation"
      [] stage = "plot_correlation"     -> "plot_volatility"
      [] stage = "plot_volatility"      -> "summary"
      [] stage = "summary"              -> "done"

\* the statement that follows a stage that returned
NextStage(stage) ==
    CASE stage = "get_data"             -> "calculate_volatility"
      [] stage = "calculate_volatility" -> "plot_volatility"
      [] stage = "plot_volatility"      -> "plot_correlation"
      [] stage = "plot_correlation"     -> "summary"
      [] stage = "summary"              -> "done"

\* a failure swallowed, as by try/except around the stage
OnFailureContinue(stage) == NextStage(stage)

\* no try/except anywhere: an exception raised in a stage ends the run
OnFailure(stage) == "aborted"

\* line 62: the guard of the main block; "call" is a caller that runs the
\* same functions with arguments of its own
Runs == invocation \in {"__main__", "call"}

None == <<>>

InitCommon ==
    /\ pc = IF Runs THEN "get_data" ELSE "idle"
    /\ prices = None
    /\ volatility = None
    /\ returns = None
    /\ correlation = None
    /\ charts = <<>>
    /\ trace = <<>>
    /\ network_calls = 0
    /\ failed = "none"

\* the script: run directly or imported, with the configuration constants
Init ==
    /\ invocation \in {"__main__", "import"}
    /\ tickers = TICKERS
    /\ window = WINDOW_SIZE
    /\ InitCommon

\* the functions called with arguments of the caller's choice
InitCall ==
    /\ invocation = "call"
    /\ tickers \in SUBSET TICKERS
    /\ window \in Windows
    /\ InitCommon

\* lines 18-24 and 64: print, yf.download(...)['Close'], return data
get_data ==
    /\ Runs
    /\ pc = "get_data"
    /\ trace' = Append(trace, "get_data")
    /\ network_calls' = network_calls + 1
    /\ \E answer \in DataSource(tickers) :
          IF answer.raised
          THEN /\ failed' = "get_data"
               /\ pc' = OnFailure("get_data")
               /\ prices' = prices
          ELSE /\ failed' = failed
               /\ pc' = NextStage("get_data")
               /\ prices' = answer.table
    /\ UNCHANGED <<invocation, tickers, window, volatility, returns,
                   correlation, charts>>

\* line 67: volatility, returns = calculate_volatility(prices, WINDOW_SIZE)
run_calculate_volatility ==
    /\ Runs
    /\ pc = "calculate_volatility"
    /\ trace' = Append(trace, "calculate_volatility")
    /\ LET r == calculate_volatility(prices, window)
       IN  IF r.raised
           THEN /\ failed' = "calculate_volatility"
                /\ pc' = OnFailure("calculate_volatility")
                /\ UNCHANGED <<volatility, returns>>
           ELSE /\ failed' = failed
                /\ pc' = NextStage("calculate_volatility")
                /\ volatility' = r.rolling_vol
                /\ returns' = r.log_returns
    /\ UNCHANGED <<invocation, tickers, window, prices, correlation, charts,
                   network_calls>>

\* lines 36-47 and 70-71: the chart is drawn and shown, or the plotting
\* library raises
plot_volatility ==
    /\ Runs
    /\ pc = "plot_volatility"
    /\ trace' = Append(trace, "plot_volatility")
    /\ \E shown \in BOOLEAN :
          IF shown
          THEN /\ charts' = Append(charts, [chart |-> "volatility", data |-> volatility])
               /\ failed' = failed
               /\ pc' = NextStage("plot_volatility")
          ELSE /\ charts' = charts
               /\ failed' = "plot_volatility"
               /\ pc' = OnFailure("plot_volatility")
    /\ UNCHANGED <<invocation, tickers, window, prices, volatility, returns,
                   correlation, network_calls>>

\* lines 49-58 and 73-74: the matrix is computed, the heatmap drawn and
\* shown and the matrix returned, or the plotting library raises
plot_correlation ==
    /\ Runs
    /\ pc = "plot_correlation"
    /\ trace' = Append(trace, "plot_correlation")
    /\ \E shown \in BOOLEAN :
          IF shown
          THEN /\ charts' = Append(charts, [chart |-> "correlation", data |-> Corr(returns)])
               /\ correlation' = Corr(returns)
               /\ failed' = failed
               /\ pc' = NextStage("plot_correlation")
          ELSE /\ charts' = charts
               /\ correlation' = correlation
               /\ failed' = "plot_correlation"
               /\ pc' = OnFailure("plot_correlation")
    /\ UNCHANGED <<invocation, tickers, window, prices, volatility, returns,
                   network_calls>>

\* lines 77-78: print("\nAnalysis Complete.") and the closing line
summary ==
    /\ Runs
    /\ pc = "summary"
    /\ trace' = Append(trace, "summary")
    /\ pc' = NextStage("summary")
    /\ UNCHANGED <<invocation, tickers, window, prices, volatility, returns,
                   correlation, charts, network_calls, failed>>

Next ==
    \/ get_data
    \/ run_calculate_volatility
    \/ plot_volatility
    \/ plot_correlation
    \/ summary

Spec == Init /\ [][Next]_vars

SpecCall == InitCall /\ [][Next]_vars

---------------------------------------------------------------------------
(* Vocabulary of the properties *)

Started(stage) == \E i \in 1 .. Len(trace) : trace[i] = stage

Returned(stage) == Started(stage) /\ failed # stage

IsPrefix(s, t) ==
    /\ Len(s) <= Len(t)
    /\ \A i \in 1 .. Len(s) : s[i] = t[i]

ValidRows(col) == {i \in 1 .. Len(col) : ~col[i].nan}

NoMissing(tbl) == \A s \in DOMAIN tbl : ValidRows(tbl[s]) = 1 .. Len(tbl[s])

AllMissing(col) == ValidRows(col) = {}

\* a table with no row, or with a column that holds no price at all
EmptyOrPartial(tbl) ==
    \/ Rows(tbl) = 0
    \/ \E s \in DOMAIN tbl : AllMissing(tbl[s])

\* index i of a column is trading day i - 1
Day(i) == i - 1

ConstantColumn(col, p) == \A i \in 1 .. Len(col) : col[i] = Num(p)

\* every column has two defined values at least, and not all of them equal
NonDegenerate(tbl) ==
    \A s \in DOMAIN tbl :
        \E i, j \in ValidRows(tbl[s]) : tbl[s][i].v # tbl[s][j].v

Charted(name) == \E i \in 1 .. Len(charts) : charts[i].chart = name

---------------------------------------------------------------------------
(* C1 *)

\* C1 (as claimed): calculate_volatility called with a window <= 1 ends in
\* an error; it never returns a (volatility, returns) pair.
C1_SmallWindowRejected ==
    (window <= 1 /\ Started("calculate_volatility"))
        => failed = "calculate_volatility"

(* C2 *)

\* C2 (as claimed): get_data called with an empty ticker set fails, and no
\* network call is issued in that run.
C2_EmptyTickersRejectedBeforeNetwork ==
    (tickers = {} /\ Started("get_data"))
        => (failed = "get_data" /\ network_calls = 0)

(* C3 *)

\* C3 (as claimed): get_data never returns an empty table or a table with an
\* all-missing column, so calculate_volatility never runs on such a table.
C3_NoEmptyOrPartialTable ==
    (Returned("get_data") => ~EmptyOrPartial(prices))
        /\ (Started("calculate_volatility") => ~EmptyOrPartial(prices))

(* C4 *)

\* per column: exactly one fewer valid return row than price rows; the
\* volatility is undefined on day 0 and on the first window - 1 valid-return
\* rows (days 1 .. window - 1) and defined and non-negative on every later day
C4_Shape ==
    \A s \in DOMAIN prices :
        /\ Cardinality(ValidRows(returns[s])) = Cardinality(ValidRows(prices[s])) - 1
        /\ \A i \in 1 .. Len(volatility[s]) :
              IF Day(i) <= window - 1
              THEN volatility[s][i].nan
              ELSE ~volatility[s][i].nan /\ volatility[s][i].v >= 0

\* C4 (as claimed): for every price table with no missing value and every
\* window >= 2 the results of calculate_volatility have the shape C4_Shape.
C4_Original ==
    (Returned("calculate_volatility") /\ window >= 2 /\ NoMissing(prices))
        => C4_Shape

\* C4 (amended): for every price table with at least one row and no missing
\* value and every window >= 2, the log-return table has exactly one fewer
\* valid row than the price table in every column, and the volatility is
\* undefined up to day window - 1 and defined and non-negative afterwards.
C4_ShapeOfResults ==
    (Returned("calculate_volatility") /\ window >= 2 /\ NoMissing(prices)
        /\ Rows(prices) >= 1)
        => C4_Shape

C4_Witness ==
    /\ Returned("calculate_volatility")
    /\ window \in 2 .. MaxWindow
    /\ NoMissing(prices)
    /\ Rows(prices) > window
    /\ \E s \in DOMAIN prices : volatility[s][Rows(prices)].v > 0

(* C5 *)

C5_Scenario ==
    /\ Returned("calculate_volatility")
    /\ window = WINDOW_SIZE
    /\ Rows(prices) = ScenarioDays

\* log returns: missing on day 0, zero on every later day
C5_ZeroReturns(s) ==
    \A i \in 1 .. ScenarioDays :
        returns[s][i] = IF Day(i) = 0 THEN NaN ELSE Num(0)

\* C5 (as claimed): with a constant price of 100 on every day and window 21,
\* log returns are 0 from day 1 on and the rolling volatility is defined and
\* exactly 0 from day 20 (= window - 1) onward.
C5_Original ==
    C5_Scenario =>
        \A s \in DOMAIN prices :
            ConstantColumn(prices[s], 100) =>
                /\ C5_ZeroReturns(s)
                /\ \A i \in 1 .. ScenarioDays :
                      Day(i) >= WINDOW_SIZE - 1 => volatility[s][i] = Num(0)

\* C5 (amended): with a constant price of 100 on every day and window 21,
\* log returns are 0 from day 1 on and the rolling volatility is undefined up
\* to day 20 and defined and exactly 0 from day 21 (= window) onward.
C5_ConstantPrice ==
    C5_Scenario =>
        \A s \in DOMAIN prices :
            ConstantColumn(prices[s], 100) =>
                /\ C5_ZeroReturns(s)
                /\ \A i \in 1 .. ScenarioDays :
                      volatility[s][i] =
                          IF Day(i) >= WINDOW_SIZE THEN Num(0) ELSE NaN

C5_Witness ==
    /\ C5_Scenario
    /\ Cardinality(DOMAIN prices) = 1
    /\ \A s \in DOMAIN prices : ConstantColumn(prices[s], 100)
    /\ ScenarioDays > WINDOW_SIZE

(* C6 *)

\* C6: for every non-degenerate log-return table the matrix returned by
\* plot_correlation is keyed ticker x ticker, is symmetric, and has 1 (1000
\* in units of 1/1000) on every diagonal entry.
C6_CorrelationMatrix ==
    (Returned("plot_correlation") /\ NonDegenerate(returns)) =>
        /\ DOMAIN correlation = DOMAIN returns
        /\ \A a \in DOMAIN returns :
              /\ DOMAIN correlation[a] = DOMAIN returns
              /\ correlation[a][a] = Num(1000)
              /\ \A b \in DOMAIN returns : correlation[a][b] = correlation[b][a]

\* two tickers whose returns are neither perfectly correlated nor perfectly
\* anti-correlated, with series of different variance
C6_Witness ==
    /\ Returned("plot_correlation")
    /\ NonDegenerate(returns)
    /\ \E a, b \in DOMAIN returns :
          /\ a # b
          /\ ~correlation[a][b].nan
          /\ correlation[a][b].v \notin {0, 1000, -1000}

(* C7 *)

\* C7: for every price table and every window >= 2, calculate_volatility
\* does not fail, and every column with fewer available (non-missing) price
\* rows than the window is undefined in every row of the volatility table.
C7_WindowLongerThanColumn ==
    (Started("calculate_volatility") /\ window >= 2) =>
        /\ failed # "calculate_volatility"
        /\ \A s \in DOMAIN prices :
              window > Cardinality(ValidRows(prices[s])) =>
                  AllMissing(volatility[s])

\* a column of three or more prices, all present, shorter than the window
C7_Witness ==
    /\ Returned("calculate_volatility")
    /\ window >= 2
    /\ \E s \in DOMAIN prices :
          /\ Len(prices[s]) >= 3
          /\ ValidRows(prices[s]) = 1 .. Len(prices[s])
          /\ window > Len(prices[s])
          /\ AllMissing(volatility[s])

(* C8 *)

\* C8: run as a script, the stages start in the order get_data,
\* calculate_volatility, plot_volatility, plot_correlation, summary, each at
\* most once; calculate_volatility works on the fetched prices with
\* WINDOW_SIZE, plot_volatility draws its volatility table and
\* plot_correlation the correlation of its log returns; imported, no stage
\* runs.
C8_StageOrder ==
    /\ invocation = "import" => (trace = <<>> /\ pc = "idle")
    /\ invocation = "__main__" =>
          /\ IsPrefix(trace, StageOrder)
          /\ Returned("calculate_volatility") =>
                /\ volatility = calculate_volatility(prices, WINDOW_SIZE).rolling_vol
                /\ returns = calculate_volatility(prices, WINDOW_SIZE).log_returns
          /\ \A i \in 1 .. Len(charts) :
                /\ charts[i].chart = "volatility" => charts[i].data = volatility
                /\ charts[i].chart = "correlation" =>
                      /\ charts[i].data = Corr(returns)
                      /\ correlation = Corr(returns)

C8_Witness ==
    /\ invocation = "__main__"
    /\ pc = "done"
    /\ trace = StageOrder
    /\ Rows(prices) >= 2

(* C9 *)

\* C9: for every price table and every column s, the log return of row t is
\* missing exactly when t is the first row or the price of row t or of row
\* t - 1 is missing; a missing price makes calculate_volatility neither fail
\* nor return a zero, and the log returns of a column depend on that column
\* alone.
C9_MissingPropagates ==
    /\ (Started("calculate_volatility") /\ window >= 0)
          => failed # "calculate_volatility"
    /\ Returned("calculate_volatility") =>
          \A s \in DOMAIN prices :
              /\ \A i \in 1 .. Len(prices[s]) :
                    returns[s][i].nan <=>
                        (i = 1 \/ prices[s][i].nan \/ prices[s][i - 1].nan)
              /\ returns[s] = LogReturns([x \in {s} |-> prices[s]])[s]

\* a gap in one column on a day where another column has a log return
C9_Witness ==
    /\ Returned("calculate_volatility")
    /\ \E s, u \in DOMAIN prices : \E i \in 2 .. Rows(prices) :
          /\ s # u
          /\ prices[s][i].nan /\ ~prices[s][i - 1].nan
          /\ returns[s][i].nan
          /\ ~returns[u][i].nan

(* C10 *)

\* C10: a stage that fails ends the run: it is the last stage started, the
\* closing summary is not printed, and the summary is printed only after both
\* charts were rendered.
C10_AbortAtFirstFailure ==
    /\ failed # "none" =>
          /\ pc = "aborted"
          /\ trace[Len(trace)] = failed
          /\ ~Started("summary")
    /\ Started("summary") => (Charted("volatility") /\ Charted("correlation"))

\* the first chart was drawn, the second stage of rendering failed
C10_Witness ==
    /\ invocation = "__main__"
    /\ failed = "plot_correlation"
    /\ Charted("volatility")
    /\ pc = "aborted"

====
